---- MODULE Spec2Model ----
(***************************************************************************)
(* The incident extraction pipeline of backend/footage_analysis.py:        *)
(* main() drives extract_chunks, transcribe_chunks and analyze_transcript  *)
(* over the fixed-length windows of one video and writes the report.       *)
(* The media decoder, the transcription engine, the language model         *)
(* service and the file system are the environment: each call to them      *)
(* succeeds or raises, chosen nondeterministically.                        *)
(***************************************************************************)
EXTENDS Integers, Sequences, FiniteSets, TLC

VARIABLES
    pc,               \* position in main()
    argc,             \* len(sys.argv)
    path_exists,      \* os.path.exists(video_path)
    INFERENCE_MODEL,  \* os.getenv("INFERENCE_MODEL")
    chunk_duration,   \* the module global CHUNK_DURATION
    duration,         \* int(clip.duration) of the source video
    llm_client,       \* main's llm_client
    model_id,         \* main's model_id
    temp_exists,      \* the directory "temp" exists
    temp_files,       \* the files under "temp"
    audio_files,      \* extract_chunks' audio_files: <<path, start>>
    transcripts,      \* transcribe_chunks' transcripts: <<path, text, start>>
    results,          \* main's results
    llm_calls,        \* the outcomes of the chat_completion calls made so far
    report,           \* OUTPUT_FILE: whether it was written, and its findings
    printed,          \* the error and warning messages printed
    error,            \* the exception caught at line 185: its stage and window
    exit_code         \* the process's exit code, -1 while it runs

vars == <<pc, argc, path_exists, INFERENCE_MODEL, chunk_duration, duration,
          llm_client, model_id, temp_exists, temp_files, audio_files,
          transcripts, results, llm_calls, report, printed, error, exit_code>>

None == "None"

NoError == [stage |-> None, window |-> 0]

NoReport == [written |-> FALSE, findings |-> <<>>]

CHUNK_DURATION == 300

\* Durations run up to MaxChunks chunk lengths.
MaxChunks == 3

\* Chunk lengths 1..MaxChunkLen are explored besides CHUNK_DURATION.
MaxChunkLen == 4

Texts == {"", "all quiet"}

Completions == {"No incidents.", "Officer draws weapon; flag for review."}

\* What one chat_completion call does: returns a response with a completion,
\* raises, or returns a response that lines 95-98 cannot read (no
\* completion_message: AttributeError; a content that is no text: TypeError).
LLMOutcomes ==
    [kind : {"ok"}, content : Completions, raises : {None}]
    \cup {[kind |-> "exception", content |-> None, raises |-> "APIConnectionError"],
          [kind |-> "malformed", content |-> None, raises |-> "AttributeError"],
          [kind |-> "malformed", content |-> None, raises |-> "TypeError"]}

Min(a, b) == IF a < b THEN a ELSE b

-----------------------------------------------------------------------------
(* extract_chunks: the chunking loop and the artifact names *)

RangeContinuesExact(start, D, L) == start + L <= D

\* range(0, duration, CHUNK_DURATION) yields start while start < duration
RangeContinues(start, D, L) == start < D

ChunkEndNoClamp(start, D, L) == start + L

\* end = min(start + CHUNK_DURATION, duration)
ChunkEnd(start, D, L) == Min(start + L, D)

RECURSIVE WindowsFrom(_, _, _)
WindowsFrom(start, D, L) ==
    IF RangeContinues(start, D, L)
    THEN <<[start |-> start, end |-> ChunkEnd(start, D, L)]>>
         \o WindowsFrom(start + L, D, L)
    ELSE <<>>

\* the windows the loop at lines 52-59 visits, in order
PlanWindows(D, L) == WindowsFrom(0, D, L)

Digit(d) == <<"0", "1", "2", "3", "4", "5", "6", "7", "8", "9">>[d + 1]

RECURSIVE DecimalDigits(_)
DecimalDigits(n) ==
    IF n < 10 THEN <<Digit(n)>>
    ELSE DecimalDigits(n \div 10) \o <<Digit(n % 10)>>

\* f"{n:02d}"
Format02d(n) == IF n < 10 THEN <<"0">> \o DecimalDigits(n) ELSE DecimalDigits(n)

Hours(t) == t \div 3600

\* start // 60, end // 60
Minutes(t) == t \div 60

\* temp_dir / f"chunk_{start // 60:02d}-{end // 60:02d}.mp3", as its pieces
AudioFilename(start, end) ==
    <<"temp/", "chunk_">> \o Format02d(Minutes(start)) \o <<"-">>
    \o Format02d(Minutes(end)) \o <<".mp3">>

\* os.path.join(temp_dir, f"{os.path.splitext(chunk_name)[0]}_transcript.txt")
TranscriptFile(audio_path) ==
    <<"temp/">> \o SubSeq(audio_path, 2, Len(audio_path) - 1) \o <<"_transcript.txt">>

-----------------------------------------------------------------------------
(* analyze_transcript *)

CaughtOnlyConnection(e) == e = "APIConnectionError"

\* except Exception as e
CaughtByAnalyze(e) == e \in {"APIConnectionError", "AttributeError", "TypeError"}

\* The result of analyze_transcript(llm_client, model_id, transcript_text,
\* chunk_start_time) when the service call behaves as `outcome`: the value
\* returned, or the exception that leaves the function.
analyze_transcript(transcript_text, chunk_start_time, outcome) ==
    IF outcome.kind = "ok"
    THEN [raised |-> None,
          value |-> [timestamp |-> chunk_start_time,
                     summary |-> <<"", outcome.content>>]]
    ELSE IF CaughtByAnalyze(outcome.raises)
    THEN [raised |-> None,
          value |-> [timestamp |-> chunk_start_time,
                     summary |-> <<"Error analyzing transcript: ", outcome.raises>>]]
    ELSE [raised |-> outcome.raises,
          value |-> [timestamp |-> chunk_start_time, summary |-> <<None, None>>]]

\* lines 154-161: the finding main records when the client is available
analyzed_or_failed(transcript_text, start_time, outcome) ==
    LET r == analyze_transcript(transcript_text, start_time, outcome)
    IN  IF r.raised = None THEN r.value
        ELSE [timestamp |-> start_time, summary |-> <<"LLM analysis failed.", "">>]

\* lines 162-166: the finding main records without a client or a model
client_not_available(start_time) ==
    [timestamp |-> start_time, summary |-> <<"LLM client not available.", "">>]

PrependResult(rs, d) == <<d>> \o rs

\* results.append(incident_data)
AppendResult(rs, d) == Append(rs, d)

CleanupEscalates(rmtree_ok) == ~rmtree_ok

\* lines 179-183: does a failure of shutil.rmtree leave the inner try?
CleanupRaises(rmtree_ok) == FALSE

-----------------------------------------------------------------------------
(* main *)

Remainders(L) ==
    IF L <= MaxChunkLen THEN 0 .. (L - 1)
    ELSE {0, 1, 59, 60, 100, L \div 2, L - 1}

Durations(L) ==
    {k * L + r : k \in 0 .. (MaxChunks - 1), r \in Remainders(L)} \cup {MaxChunks * L}

InitWith(L) ==
    /\ pc = "start"
    /\ argc \in {1, 2}
    /\ path_exists \in BOOLEAN
    /\ INFERENCE_MODEL \in {None, "llama"}
    /\ chunk_duration = L
    /\ duration \in Durations(L)
    /\ llm_client = None
    /\ model_id = None
    /\ temp_exists = FALSE
    /\ temp_files = {}
    /\ audio_files = <<>>
    /\ transcripts = <<>>
    /\ results = <<>>
    /\ llm_calls = <<>>
    /\ report = NoReport
    /\ printed = {}
    /\ error = NoError
    /\ exit_code = -1

Init == InitWith(CHUNK_DURATION)

PlanInit == \E L \in (1 .. MaxChunkLen) \cup {CHUNK_DURATION} : InitWith(L)

\* sys.exit(1) with a message
Exit1(msg) ==
    /\ pc' = "done"
    /\ exit_code' = 1
    /\ printed' = printed \cup {msg}

\* lines 185-187: an exception of the processing block
Fail(stage, window) ==
    /\ error' = [stage |-> stage, window |-> window]
    /\ Exit1("Error processing video")

\* lines 113-120
CheckArgs ==
    /\ pc = "start"
    /\ IF argc # 2 THEN Exit1("Usage")
       ELSE IF ~path_exists THEN Exit1("does not exist")
       ELSE /\ pc' = "connect"
            /\ UNCHANGED <<exit_code, printed>>
    /\ UNCHANGED <<argc, path_exists, INFERENCE_MODEL, chunk_duration, duration,
                   llm_client, model_id, temp_exists, temp_files, audio_files,
                   transcripts, results, llm_calls, report, error>>

\* lines 122-134
Connect ==
    /\ pc = "connect"
    /\ \E created \in BOOLEAN :
         IF created
         THEN /\ llm_client' = "client"
              /\ model_id' = INFERENCE_MODEL
              /\ IF INFERENCE_MODEL = None
                 THEN Exit1("INFERENCE_MODEL not set")
                 ELSE /\ pc' = "open_clip"
                      /\ UNCHANGED <<exit_code, printed>>
         ELSE /\ printed' = printed \cup {"Error connecting to Llama Stack"}
              /\ pc' = "open_clip"
              /\ UNCHANGED <<llm_client, model_id, exit_code>>
    /\ UNCHANGED <<argc, path_exists, INFERENCE_MODEL, chunk_duration, duration,
                   temp_exists, temp_files, audio_files, transcripts, results,
                   llm_calls, report, error>>

\* lines 41-50
OpenClip ==
    /\ pc = "open_clip"
    /\ \E opened \in BOOLEAN :
         IF opened
         THEN /\ temp_exists' = TRUE
              /\ pc' = "extract"
              /\ UNCHANGED <<error, exit_code, printed>>
         ELSE /\ Fail("open_clip", 0)
              /\ UNCHANGED temp_exists
    /\ UNCHANGED <<argc, path_exists, INFERENCE_MODEL, chunk_duration, duration,
                   llm_client, model_id, temp_files, audio_files, transcripts,
                   results, llm_calls, report>>

\* lines 52-59: one iteration of the chunking loop
ExtractChunk ==
    /\ pc = "extract"
    /\ LET i == Len(audio_files) + 1
           W == PlanWindows(duration, chunk_duration)
       IN  /\ i <= Len(W)
           /\ \E written \in BOOLEAN :
                IF written
                THEN LET audio_filename == AudioFilename(W[i].start, W[i].end)
                     IN  /\ temp_files' = temp_files \cup {audio_filename}
                         /\ audio_files' = Append(audio_files, <<audio_filename, W[i].start>>)
                         /\ UNCHANGED <<pc, error, exit_code, printed>>
                ELSE /\ Fail("extract", i)
                     /\ UNCHANGED <<temp_files, audio_files>>
    /\ UNCHANGED <<argc, path_exists, INFERENCE_MODEL, chunk_duration, duration,
                   llm_client, model_id, temp_exists, transcripts, results,
                   llm_calls, report>>

\* line 61: the loop is exhausted
ExtractReturn ==
    /\ pc = "extract"
    /\ Len(audio_files) = Len(PlanWindows(duration, chunk_duration))
    /\ pc' = "load_model"
    /\ UNCHANGED <<argc, path_exists, INFERENCE_MODEL, chunk_duration, duration,
                   llm_client, model_id, temp_exists, temp_files, audio_files,
                   transcripts, results, llm_calls, report, printed, error, exit_code>>

\* lines 66-68
LoadModel ==
    /\ pc = "load_model"
    /\ \E loaded \in BOOLEAN :
         IF loaded
         THEN /\ pc' = "transcribe"
              /\ UNCHANGED <<error, exit_code, printed>>
         ELSE Fail("load_model", 0)
    /\ UNCHANGED <<argc, path_exists, INFERENCE_MODEL, chunk_duration, duration,
                   llm_client, model_id, temp_exists, temp_files, audio_files,
                   transcripts, results, llm_calls, report>>

\* lines 70-76: one iteration of the transcription loop
TranscribeChunk ==
    /\ pc = "transcribe"
    /\ LET i == Len(transcripts) + 1
       IN  /\ i <= Len(audio_files)
           /\ \/ \E text \in Texts :
                   /\ transcripts' = Append(transcripts,
                                            <<audio_files[i][1], text, audio_files[i][2]>>)
                   /\ UNCHANGED <<pc, error, exit_code, printed>>
              \/ /\ Fail("transcribe", i)
                 /\ UNCHANGED transcripts
    /\ UNCHANGED <<argc, path_exists, INFERENCE_MODEL, chunk_duration, duration,
                   llm_client, model_id, temp_exists, temp_files, audio_files,
                   results, llm_calls, report>>

\* line 78, line 141
TranscribeReturn ==
    /\ pc = "transcribe"
    /\ Len(transcripts) = Len(audio_files)
    /\ pc' = "analyze"
    /\ results' = <<>>
    /\ UNCHANGED <<argc, path_exists, INFERENCE_MODEL, chunk_duration, duration,
                   llm_client, model_id, temp_exists, temp_files, audio_files,
                   transcripts, llm_calls, report, printed, error, exit_code>>

\* lines 143-168: one iteration of the analysis loop
AnalyzeChunk ==
    /\ pc = "analyze"
    /\ LET i == Len(results) + 1
       IN  /\ i <= Len(transcripts)
           /\ \/ /\ Fail("write_transcript", i)
                 /\ UNCHANGED <<temp_files, results, llm_calls>>
              \/ LET audio_path == transcripts[i][1]
                     transcript_text == transcripts[i][2]
                     start_time == transcripts[i][3]
                 IN  /\ temp_files' = temp_files \cup {TranscriptFile(audio_path)}
                     /\ IF llm_client # None /\ model_id # None
                        THEN \E outcome \in LLMOutcomes :
                               /\ llm_calls' = Append(llm_calls, outcome)
                               /\ results' = AppendResult(results,
                                      analyzed_or_failed(transcript_text, start_time, outcome))
                        ELSE /\ results' = AppendResult(results,
                                      client_not_available(start_time))
                             /\ UNCHANGED llm_calls
                     /\ UNCHANGED <<pc, error, exit_code, printed>>
    /\ UNCHANGED <<argc, path_exists, INFERENCE_MODEL, chunk_duration, duration,
                   llm_client, model_id, temp_exists, audio_files, transcripts, report>>

\* lines 170-176
SaveResults ==
    /\ pc = "analyze"
    /\ Len(results) = Len(transcripts)
    /\ \E saved \in BOOLEAN :
         IF saved
         THEN /\ report' = [written |-> TRUE, findings |-> results]
              /\ pc' = "cleanup"
              /\ UNCHANGED <<error, exit_code, printed>>
         ELSE /\ Fail("save", 0)
              /\ UNCHANGED report
    /\ UNCHANGED <<argc, path_exists, INFERENCE_MODEL, chunk_duration, duration,
                   llm_client, model_id, temp_exists, temp_files, audio_files,
                   transcripts, results, llm_calls>>

\* lines 178-183, and the return of main
Cleanup ==
    /\ pc = "cleanup"
    /\ \E rmtree_ok \in BOOLEAN :
         IF CleanupRaises(rmtree_ok)
         THEN /\ Fail("cleanup", 0)
              /\ UNCHANGED <<temp_exists, temp_files>>
         ELSE /\ IF rmtree_ok
                 THEN /\ temp_exists' = FALSE
                      /\ temp_files' = {}
                      /\ UNCHANGED printed
                 ELSE /\ printed' = printed \cup {"Warning: Failed to clean up"}
                      /\ UNCHANGED <<temp_exists, temp_files>>
              /\ pc' = "done"
              /\ exit_code' = 0
              /\ UNCHANGED error
    /\ UNCHANGED <<argc, path_exists, INFERENCE_MODEL, chunk_duration, duration,
                   llm_client, model_id, audio_files, transcripts, results,
                   llm_calls, report>>

Next ==
    \/ CheckArgs
    \/ Connect
    \/ OpenClip
    \/ ExtractChunk
    \/ ExtractReturn
    \/ LoadModel
    \/ TranscribeChunk
    \/ TranscribeReturn
    \/ AnalyzeChunk
    \/ SaveResults
    \/ Cleanup

\* the program as written, CHUNK_DURATION = 300
Spec == Init /\ [][Next]_vars

\* the program with CHUNK_DURATION set to any small chunk length as well
PlanSpec == PlanInit /\ [][Next]_vars

-----------------------------------------------------------------------------
(* The properties *)

\* the planned windows of the job
W == PlanWindows(duration, chunk_duration)

\* ceil(a / b) for b > 0
CeilDiv(a, b) == (a + b - 1) \div b

CleanupWarning == "Warning: Failed to clean up"

\* the source video exists and the model identifier is configured
JobValid == argc = 2 /\ path_exists /\ INFERENCE_MODEL # None

\* C1 (completeness): a valid job whose only failures are failures of the
\* decoder or the transcription engine on some window, or of the language
\* model service, ends with a report of exactly one finding per planned window.
C1_Completeness ==
    (pc = "done" /\ JobValid /\ error.stage \in {None, "extract", "transcribe"})
        => (report.written /\ Len(report.findings) = Len(W))

\* C2 (isolation): when extraction or transcription fails for window k, the
\* job still completes with exit code 0 and a report holding a finding for
\* every window, the findings of the windows other than k being analyses.
C2_Isolation ==
    (pc = "done" /\ error.stage \in {"extract", "transcribe"})
        => /\ exit_code = 0
           /\ report.written
           /\ Len(report.findings) = Len(W)
           /\ \A j \in 1 .. Len(report.findings) :
                j # error.window =>
                    /\ report.findings[j].timestamp = W[j].start
                    /\ report.findings[j].summary[1] \in {"", "LLM client not available."}

\* C3 (cleanup): once the job has ended on any path other than a failed
\* removal, the temporary workspace and every file under it are gone.
C3_Cleanup ==
    (pc = "done" /\ CleanupWarning \notin printed)
        => (~temp_exists /\ temp_files = {})

\* C4 (contiguity): the planned windows start at 0, each has end > start and
\* length at most the chunk length, each starts where the previous one ends,
\* the last one ends at the duration, and there is none when the duration is 0;
\* the chunks extracted so far start at the planned starts.
C4_Contiguity ==
    LET w == W
    IN  /\ (duration = 0) <=> (w = <<>>)
        /\ w # <<>> => (w[1].start = 0 /\ w[Len(w)].end = duration)
        /\ \A i \in 1 .. Len(w) :
             /\ w[i].end > w[i].start
             /\ w[i].end - w[i].start <= chunk_duration
             /\ i < Len(w) => w[i + 1].start = w[i].end
        /\ Len(audio_files) <= Len(w)
        /\ \A i \in 1 .. Len(audio_files) : audio_files[i][2] = w[i].start

C4_Witness ==
    /\ pc = "load_model"
    /\ Len(audio_files) >= 2
    /\ duration % chunk_duration # 0

\* C5 (coverage count): the number of planned windows is ceil(D / L) and so
\* is the number of chunks extract_chunks returns; with duration 0 nothing is
\* extracted, no window-level error arises, and a job that ends with exit
\* code 0 has written the empty report.
C5_CoverageCount ==
    /\ Len(W) = CeilDiv(duration, chunk_duration)
    /\ pc \in {"load_model", "transcribe", "analyze", "cleanup"}
         => Len(audio_files) = CeilDiv(duration, chunk_duration)
    /\ duration = 0 =>
         /\ audio_files = <<>>
         /\ error.stage \notin {"extract", "transcribe", "write_transcript"}
         /\ report.written => report.findings = <<>>
         /\ (pc = "done" /\ exit_code = 0) => report.written

C5_Witness ==
    /\ pc = "done"
    /\ duration = 0
    /\ exit_code = 0
    /\ report = [written |-> TRUE, findings |-> <<>>]

\* C6 (ordering): the findings collected so far, and those of the written
\* report, are in strictly ascending order of timestamp, and the i-th
\* timestamp is the start of the i-th planned window.
C6_Ordering ==
    LET w == W
    IN  /\ \A i \in 1 .. Len(results) : results[i].timestamp = w[i].start
        /\ report.written =>
             /\ Len(report.findings) = Len(w)
             /\ \A i \in 1 .. Len(report.findings) :
                  /\ report.findings[i].timestamp = w[i].start
                  /\ i > 1 => report.findings[i - 1].timestamp < report.findings[i].timestamp

C6_Witness ==
    /\ report.written
    /\ Len(report.findings) >= 3
    /\ duration = 700

\* C7 (analysis never fails outward): for every call made to the language
\* model service, whatever its outcome, analyze_transcript returned a finding
\* for the window's start time (main's fallback for a raising analysis is never
\* used); a successful call's completion is the summary, a failed call's
\* finding describes the failure; and a failed call does not end the job.
C7_AnalysisNeverRaises ==
    /\ Len(llm_calls) <= Len(results)
    /\ \A i \in 1 .. Len(llm_calls) :
         /\ results[i].timestamp = transcripts[i][3]
         /\ results[i].summary[1] # "LLM analysis failed."
         /\ llm_calls[i].kind = "ok" => results[i].summary = <<"", llm_calls[i].content>>
         /\ llm_calls[i].kind # "ok" =>
              results[i].summary = <<"Error analyzing transcript: ", llm_calls[i].raises>>
    /\ (pc = "done" /\ llm_calls # <<>> /\ error.stage \notin {"write_transcript", "save"})
         => (report.written /\ Len(report.findings) = Len(transcripts))

C7_Witness ==
    /\ Len(results) >= 3
    /\ Len(llm_calls) >= 3
    /\ llm_calls[1].kind = "malformed"
    /\ llm_calls[2].kind = "exception"
    /\ llm_calls[3].kind = "ok"
    /\ transcripts[1][2] = ""

\* C8 (job-level abort): whenever the source video does not exist or the
\* model identifier is absent, nothing is extracted, transcribed or analyzed,
\* no report is written, and the job ends with exit code 1.
C8_JobLevelAbort ==
    (~path_exists \/ INFERENCE_MODEL = None)
        => /\ ~temp_exists
           /\ audio_files = <<>>
           /\ transcripts = <<>>
           /\ results = <<>>
           /\ ~report.written
           /\ pc = "done" => exit_code = 1

\* C9 (cleanup failure is not a job failure): a job that wrote its report and
\* whose workspace is still there at the end (its removal failed) ends with
\* exit code 0, a warning and no job-level error, the report being the
\* findings collected; and a warning is only ever printed on such an end.
C9_CleanupFailureIsNotJobFailure ==
    /\ (pc = "done" /\ report.written /\ temp_exists)
         => /\ exit_code = 0
            /\ error = NoError
            /\ CleanupWarning \in printed
            /\ "Error processing video" \notin printed
            /\ report.findings = results
    /\ CleanupWarning \in printed => (pc = "done" /\ exit_code = 0 /\ report.written)

C9_Witness ==
    /\ pc = "done"
    /\ CleanupWarning \in printed
    /\ temp_exists
    /\ Len(report.findings) >= 2

\* C10 (artifact path uniqueness): with the chunk length in use, the audio
\* file names of the planned windows are pairwise distinct, and so are the
\* transcript file names, none of which is an audio file name; every file
\* written to the workspace is a new one.
C10_ArtifactPathsUnique ==
    LET w == W
        audio == {AudioFilename(w[i].start, w[i].end) : i \in 1 .. Len(w)}
        text == {TranscriptFile(a) : a \in audio}
    IN  /\ Cardinality(audio) = Len(w)
        /\ Cardinality(text) = Len(w)
        /\ audio \cap text = {}
        /\ temp_exists => Cardinality(temp_files) = Len(audio_files) + Len(results)

C10_Witness ==
    /\ Len(audio_files) >= 3
    /\ Len(results) >= 3
    /\ Cardinality(temp_files) >= 6

====
